---------------------------- MODULE Spec2Model ----------------------------
(***************************************************************************)
(* Model of rust-web-browser/src/url.rs: Url::new, which parses an input   *)
(* string into a Url, and Url::request, which opens a TCP connection to    *)
(* (host, port).  A string is a sequence of one-character strings.         *)
(***************************************************************************)
EXTENDS Integers, Sequences, FiniteSets, TLC

(***************************************************************************)
(* Bounds of the model.                                                    *)
(***************************************************************************)
\* longest input, counted in pieces of Tokens
MaxToks == 4
\* number of calls, of Url::new and of Url::request together, in one run
MaxCalls == 2
\* most addresses a host resolves to
MaxAddrs == 2

(***************************************************************************)
(* String literals of the source.                                          *)
(***************************************************************************)
Delim == <<":", "/", "/">>

Slash == <<"/">>

Http == <<"h", "t", "t", "p">>

Port == 80

MissingMsg == <<"U", "R", "L", " ", "m", "i", "s", "s", "i", "n", "g", " ", "s", "c", "h", "e", "m", "e", " ", "d", "e", "l", "i", "m", "i", "t", "e", "r", " ", ":", "/", "/", " ">>

UnsupportedPrefix == <<"o", "n", "l", "y", " ", "h", "t", "t", "p", " ", "i", "s", " ", "s", "u", "p", "p", "o", "r", "t", "e", "d", " ", "f", "o", "r", " ", "n", "o", "w", ",", " ", "b", "u", "t", " ", "g", "o", "t", " ", ":", " ">>

EmptyHostMsg == <<"h", "o", "s", "t", " ", "i", "s", " ", "e", "m", "p", "t", "y">>

(***************************************************************************)
(* The inputs: every concatenation of at most MaxToks pieces.  The pieces  *)
(* hold the characters the parser looks at (':' and '/'), the supported    *)
(* scheme, other schemes, upper case, a blank character, and a port.       *)
(***************************************************************************)
Tokens == { Http, Delim, Slash, <<":">>, <<"s">>, <<":", "8">>, <<" ">>,
            <<"H", "T", "T", "P">>, <<"f", "t", "p">> }

RECURSIVE Flatten(_)
Flatten(ts) == IF ts = <<>> THEN <<>> ELSE Head(ts) \o Flatten(Tail(ts))

Inputs ==
    { Flatten(ts) : ts \in UNION { [1..n -> Tokens] : n \in 0..MaxToks } }

VARIABLES
    input,    \* the string the caller passes to Url::new
    origin,   \* 0: the caller's own input; k: rebuilt from the fields of urls[k]
    calls,    \* the Url::new calls made so far, with their results
    urls,     \* the Url values the caller holds
    conns,    \* the Url::request calls made so far
    net       \* the connection attempts handed to the transport, in order

vars == <<input, origin, calls, urls, conns, net>>

(***************************************************************************)
(* str::split_once(pat): the text before and after the FIRST occurrence of *)
(* pat, or None.                                                           *)
(***************************************************************************)
Matches(s, pat) ==
    { i \in 1..(Len(s) - Len(pat) + 1) : SubSeq(s, i, i + Len(pat) - 1) = pat }

First(S) == CHOOSE i \in S : \A j \in S : i <= j

\* mutant: splits at the first character of pat alone (':' for "://")
split_once_char(s, pat) ==
    LET m == Matches(s, <<Head(pat)>>) IN
    IF m = {} THEN [found |-> FALSE, left |-> <<>>, right |-> <<>>]
    ELSE [found |-> TRUE,
          left  |-> SubSeq(s, 1, First(m) - 1),
          right |-> SubSeq(s, First(m) + 1, Len(s))]

Last(S) == CHOOSE i \in S : \A j \in S : i >= j

\* mutant: rsplit_once, the LAST occurrence of pat
rsplit_once(s, pat) ==
    LET m == Matches(s, pat) IN
    IF m = {} THEN [found |-> FALSE, left |-> <<>>, right |-> <<>>]
    ELSE [found |-> TRUE,
          left  |-> SubSeq(s, 1, Last(m) - 1),
          right |-> SubSeq(s, Last(m) + Len(pat), Len(s))]

split_once(s, pat) ==
    LET m == Matches(s, pat) IN
    IF m = {} THEN [found |-> FALSE, left |-> <<>>, right |-> <<>>]
    ELSE [found |-> TRUE,
          left  |-> SubSeq(s, 1, First(m) - 1),
          right |-> SubSeq(s, First(m) + Len(pat), Len(s))]

(***************************************************************************)
(* Result<Url, String>.                                                    *)
(***************************************************************************)
NoUrl == [scheme |-> <<>>, host |-> <<>>, path |-> <<>>, port |-> 0]

Ok(u) == [ok |-> TRUE, url |-> u, err |-> <<>>]

Err(msg) == [ok |-> FALSE, url |-> NoUrl, err |-> msg]

\* mutant: the remainder is split at its last '/'
HostPathLastSlash(rest_of_url) ==
    LET m == Matches(rest_of_url, Slash) IN
    IF m # {} THEN [host |-> SubSeq(rest_of_url, 1, Last(m) - 1),
                    path |-> Slash \o SubSeq(rest_of_url, Last(m) + 1, Len(rest_of_url))]
    ELSE [host |-> rest_of_url, path |-> Slash]

\* mutant: the '/' is not put back in front of the path
HostPathNoSlash(rest_of_url) ==
    LET sp == split_once(rest_of_url, Slash) IN
    IF sp.found THEN [host |-> sp.left, path |-> sp.right]
    ELSE [host |-> rest_of_url, path |-> Slash]

\* mutant: without a '/' the path is left empty
HostPathEmptyDefault(rest_of_url) ==
    LET sp == split_once(rest_of_url, Slash) IN
    IF sp.found THEN [host |-> sp.left, path |-> Slash \o sp.right]
    ELSE [host |-> rest_of_url, path |-> <<>>]

(***************************************************************************)
(* Url::new, lines 72-78: the host and the path of the remainder.          *)
(***************************************************************************)
HostPath(rest_of_url) ==
    LET sp == split_once(rest_of_url, Slash) IN
    IF sp.found THEN [host |-> sp.left, path |-> Slash \o sp.right]
    ELSE [host |-> rest_of_url, path |-> Slash]

\* mutant: the empty host is not rejected
BuildNoHostCheck(scheme, rest_of_url) ==
    LET hp == HostPath(rest_of_url) IN
    Ok([scheme |-> scheme, host |-> hp.host, path |-> hp.path, port |-> Port])

\* mutant: "host:8" is read as host and port 8
BuildParsePort(scheme, rest_of_url) ==
    LET hp == HostPath(rest_of_url)
        sp == split_once(hp.host, <<":">>)
        h  == IF sp.found THEN sp.left ELSE hp.host
        p  == IF sp.found /\ sp.right = <<"8">> THEN 8 ELSE Port
    IN  IF h = <<>> THEN Err(EmptyHostMsg)
        ELSE Ok([scheme |-> scheme, host |-> h, path |-> hp.path, port |-> p])

(***************************************************************************)
(* Url::new, lines 72-91: from the remainder to the result.                *)
(***************************************************************************)
Build(scheme, rest_of_url) ==
    LET hp == HostPath(rest_of_url) IN
    IF hp.host = <<>> THEN Err(EmptyHostMsg)
    ELSE Ok([scheme |-> scheme, host |-> hp.host, path |-> hp.path, port |-> Port])

\* mutant: the empty host is looked for before the scheme is compared
NewHostFirst(url_input) ==
    LET sp == split_once(url_input, Delim) IN
    IF ~sp.found THEN Err(MissingMsg)
    ELSE LET scheme      == sp.left
             rest_of_url == sp.right
         IN  IF HostPath(rest_of_url).host = <<>> THEN Err(EmptyHostMsg)
             ELSE IF scheme # Http THEN Err(UnsupportedPrefix \o scheme)
             ELSE Build(scheme, rest_of_url)

(***************************************************************************)
(* Url::new.                                                               *)
(***************************************************************************)
New(url_input) ==
    LET sp == split_once(url_input, Delim) IN
    IF ~sp.found THEN Err(MissingMsg)
    ELSE LET scheme      == sp.left
             rest_of_url == sp.right
         IN  IF scheme # Http THEN Err(UnsupportedPrefix \o scheme)
             ELSE Build(scheme, rest_of_url)

Init ==
    /\ input \in Inputs
    /\ origin = 0
    /\ calls = <<>>
    /\ urls = <<>>
    /\ conns = <<>>
    /\ net = <<>>

(***************************************************************************)
(* A caller calls Url::new(input) and keeps the Url on success.  Url::new  *)
(* has no state: it can be called at any time, also while a request of     *)
(* another thread is in progress.                                          *)
(***************************************************************************)
CallNew ==
    /\ Len(calls) + Len(conns) < MaxCalls
    /\ LET r == New(input) IN
        /\ calls' = Append(calls, [input |-> input, origin |-> origin, result |-> r])
        /\ urls' = IF r.ok THEN Append(urls, r.url) ELSE urls
    /\ UNCHANGED <<input, origin, conns, net>>

(***************************************************************************)
(* The caller rebuilds scheme + "://" + host + path from a Url it holds,   *)
(* as the next input of Url::new.                                          *)
(***************************************************************************)
Rebuilt(u) == u.scheme \o Delim \o u.host \o u.path

Reconstruct ==
    /\ origin = 0
    /\ \E k \in 1..Len(urls) :
        /\ input' = Rebuilt(urls[k])
        /\ origin' = k
    /\ UNCHANGED <<calls, urls, conns, net>>

(***************************************************************************)
(* Url::request(&self) calls TcpStream::connect((host, port)) once and     *)
(* returns its result.  TcpStream::connect first resolves (host, port) to  *)
(* a list of addresses, which blocks, and then tries the addresses in      *)
(* order: the first attempt that connects ends the call with Ok(stream);   *)
(* an attempt that fails is followed by the attempt at the next address;   *)
(* after the last address the call ends with the last error.  A host that  *)
(* resolves to no address ends the call with an error before any attempt.  *)
(* Any Url held can be requested, any number of times, also while another  *)
(* request is in progress.                                                 *)
(***************************************************************************)
Request ==
    /\ Len(calls) + Len(conns) < MaxCalls
    /\ \E k \in 1..Len(urls) :
          conns' = Append(conns, [url |-> k, resolved |-> FALSE,
                                  state |-> "Attempting"])
    /\ UNCHANGED <<input, origin, calls, urls, net>>

\* The calls whose address lookup has not returned.
Resolving ==
    { c \in 1..Len(conns) : conns[c].state = "Attempting" /\ ~conns[c].resolved }

\* The lookup returns no address: request returns Err(e).
ResolveNone ==
    /\ \E c \in Resolving :
          conns' = [conns EXCEPT ![c].resolved = TRUE, ![c].state = "Failed"]
    /\ UNCHANGED <<input, origin, calls, urls, net>>

\* The lookup returns a list of addresses: the first one is tried.
ResolveSome ==
    /\ \E c \in Resolving :
        /\ conns' = [conns EXCEPT ![c].resolved = TRUE]
        /\ net' = Append(net, [call |-> c, addr |-> 1, answer |-> "pending",
                               host |-> urls[conns[c].url].host,
                               port |-> urls[conns[c].url].port])
    /\ UNCHANGED <<input, origin, calls, urls>>

\* The attempts that are waiting for the transport.
Pending == { n \in 1..Len(net) : net[n].answer = "pending" }

\* The transport connects: request returns Ok(stream).
ConnectOk ==
    /\ \E n \in Pending :
        /\ net' = [net EXCEPT ![n].answer = "ok"]
        /\ conns' = [conns EXCEPT ![net[n].call].state = "Connected"]
    /\ UNCHANGED <<input, origin, calls, urls>>

\* The transport fails and the list has a next address: it is tried.
ConnectErrNext ==
    /\ \E n \in Pending :
        /\ net[n].addr < MaxAddrs
        /\ net' = Append([net EXCEPT ![n].answer = "err"],
                         [net[n] EXCEPT !.addr = net[n].addr + 1])
    /\ UNCHANGED <<input, origin, calls, urls, conns>>

\* The transport fails at the last address: request returns Err(e).
ConnectErr ==
    /\ \E n \in Pending :
        /\ net' = [net EXCEPT ![n].answer = "err"]
        /\ conns' = [conns EXCEPT ![net[n].call].state = "Failed"]
    /\ UNCHANGED <<input, origin, calls, urls>>

Next ==
    \/ CallNew
    \/ Reconstruct
    \/ Request
    \/ ResolveNone
    \/ ResolveSome
    \/ ConnectOk
    \/ ConnectErrNext
    \/ ConnectErr

Spec == Init /\ [][Next]_vars

(***************************************************************************)
(* Vocabulary of the properties, stated on the characters of the input and *)
(* of the result, without the parser's own operators.                      *)
(***************************************************************************)
DelimAt(s, i) ==
    /\ i >= 1
    /\ i + 2 <= Len(s)
    /\ s[i] = ":"
    /\ s[i + 1] = "/"
    /\ s[i + 2] = "/"

HasDelim(s) == \E i \in 1..Len(s) : DelimAt(s, i)

\* i is where the first "://" of s starts
FirstDelimAt(s, i) == DelimAt(s, i) /\ \A j \in 1..(i - 1) : ~DelimAt(s, j)

HasSlash(s) == \E i \in 1..Len(s) : s[i] = "/"

\* i is where the first '/' of s is
FirstSlashAt(s, i) ==
    /\ i \in 1..Len(s)
    /\ s[i] = "/"
    /\ \A j \in 1..(i - 1) : s[j] # "/"

StartsWith(s, pre) == Len(s) >= Len(pre) /\ \A i \in 1..Len(pre) : s[i] = pre[i]

\* the three parse errors, told apart by the message Url::new returns
MissingSchemeDelimiter(r) == ~r.ok /\ r.url = NoUrl /\ r.err = MissingMsg

UnsupportedScheme(r, text) ==
    ~r.ok /\ r.url = NoUrl /\ r.err = UnsupportedPrefix \o text

AnyUnsupportedScheme(r) ==
    ~r.ok /\ r.url = NoUrl /\ StartsWith(r.err, UnsupportedPrefix)

EmptyHost(r) == ~r.ok /\ r.url = NoUrl /\ r.err = EmptyHostMsg

Parsed(r) == r.ok /\ r.err = <<>>

\* the calls of Url::new that returned Ok
OkCalls == { k \in 1..Len(calls) : calls[k].result.ok }

(***************************************************************************)
(* C1: every Url::new call whose input does not contain "://" fails with   *)
(* the missing-scheme-delimiter error, and no Url is constructed for it.   *)
(***************************************************************************)
C1_MissingSchemeDelimiter ==
    /\ \A k \in 1..Len(calls) :
          ~HasDelim(calls[k].input) => MissingSchemeDelimiter(calls[k].result)
    /\ Len(urls) = Cardinality(OkCalls)

\* "http:/s" has been parsed: ':' and '/' are there, the delimiter is not
C1_Witness ==
    \E k \in 1..Len(calls) :
        /\ calls[k].input = Http \o <<":", "/", "s">>
        /\ ~HasDelim(calls[k].input)
        /\ ~calls[k].result.ok

(***************************************************************************)
(* C2: every Url::new call whose input contains "://" and whose text       *)
(* before the first "://" is not exactly "http" fails with the             *)
(* unsupported-scheme error, which carries that text unchanged.            *)
(***************************************************************************)
C2_UnsupportedScheme ==
    \A k \in 1..Len(calls) :
        LET s == calls[k].input IN
        \A i \in 1..Len(s) :
            (FirstDelimAt(s, i) /\ SubSeq(s, 1, i - 1) # Http)
                => UnsupportedScheme(calls[k].result, SubSeq(s, 1, i - 1))

\* "HTTP://s://" has been parsed: upper case, and a second "://" after the first
C2_Witness ==
    \E k \in 1..Len(calls) :
        /\ calls[k].input = <<"H", "T", "T", "P">> \o Delim \o <<"s">> \o Delim
        /\ UnsupportedScheme(calls[k].result, <<"H", "T", "T", "P">>)

(***************************************************************************)
(* C3: every Url returned by Url::new has scheme "http", a non-empty host  *)
(* without '/', a path that begins with '/', and port 80.                  *)
(***************************************************************************)
UrlInvariant(u) ==
    /\ u.scheme = Http
    /\ u.host # <<>>
    /\ ~HasSlash(u.host)
    /\ Len(u.path) >= 1
    /\ u.path[1] = "/"
    /\ u.port = 80

C3_UrlInvariants ==
    /\ \A k \in OkCalls : UrlInvariant(calls[k].result.url)
    /\ \A j \in 1..Len(urls) : UrlInvariant(urls[j])

\* "http://://s" has been parsed: host ":" and path "//s"
C3_Witness ==
    \E k \in OkCalls :
        /\ calls[k].input = Http \o Delim \o Delim \o <<"s">>
        /\ calls[k].result.url.host = <<":">>
        /\ calls[k].result.url.path = <<"/", "/", "s">>

(***************************************************************************)
(* C4: round trip.  Every Url::new call on the string rebuilt from a Url   *)
(* (scheme + "://" + host + path) succeeds and returns a Url with the same *)
(* scheme, host, path and port.                                            *)
(***************************************************************************)
C4_RoundTrip ==
    \A k \in 1..Len(calls) :
        calls[k].origin > 0 =>
            /\ Parsed(calls[k].result)
            /\ calls[k].result.url = urls[calls[k].origin]

\* "http://s:8" was parsed, rebuilt as "http://s:8/" and parsed again
C4_Witness ==
    \E k \in 1..Len(calls) :
        /\ calls[k].origin > 0
        /\ calls[1].input = Http \o Delim \o <<"s", ":", "8">>
        /\ calls[k].input = Http \o Delim \o <<"s", ":", "8", "/">>
        /\ calls[k].result.ok

(***************************************************************************)
(* C5: for every input with scheme "http" the remainder is split at its    *)
(* first '/' only: host is the text before it and path is the text from it *)
(* on, so scheme + "://" + host + path is the input; without a '/' host is *)
(* the remainder and path is "/", so the rebuilt string is the input with  *)
(* one '/' appended.  The Url returned carries exactly this host and path. *)
(***************************************************************************)
SplitOk(s, rest, hp) ==
    IF HasSlash(rest)
    THEN /\ \A j \in 1..Len(rest) :
               FirstSlashAt(rest, j) =>
                   /\ hp.host = SubSeq(rest, 1, j - 1)
                   /\ hp.path = SubSeq(rest, j, Len(rest))
         /\ Http \o Delim \o hp.host \o hp.path = s
    ELSE /\ hp.host = rest
         /\ hp.path = <<"/">>
         /\ Http \o Delim \o hp.host \o hp.path = s \o <<"/">>

C5_SplitAtFirstSlash ==
    \A k \in 1..Len(calls) :
        LET s == calls[k].input
            r == calls[k].result
        IN  \A i \in 1..Len(s) :
                (FirstDelimAt(s, i) /\ SubSeq(s, 1, i - 1) = Http) =>
                    LET rest == SubSeq(s, i + 3, Len(s))
                        hp   == HostPath(rest)
                    IN  /\ SplitOk(s, rest, hp)
                        /\ r.ok => (r.url.host = hp.host /\ r.url.path = hp.path)
                        /\ ~r.ok => hp.host = <<>>

\* "http://:///" has been parsed: host ":" and path "///", the slashes kept
C5_Witness ==
    \E k \in OkCalls :
        /\ calls[k].input = Http \o Delim \o <<":", "/", "/", "/">>
        /\ calls[k].result.url.host = <<":">>
        /\ calls[k].result.url.path = <<"/", "/", "/">>

(***************************************************************************)
(* C6: every Url::new call whose scheme is "http" and whose remainder is   *)
(* empty or begins with '/' fails with the empty-host error, and no Url is *)
(* constructed for it.                                                     *)
(***************************************************************************)
C6_EmptyHost ==
    /\ \A k \in 1..Len(calls) :
          LET s == calls[k].input IN
          \A i \in 1..Len(s) :
              (/\ FirstDelimAt(s, i)
               /\ SubSeq(s, 1, i - 1) = Http
               /\ (Len(s) = i + 2 \/ s[i + 3] = "/"))
                  => EmptyHost(calls[k].result)
    /\ Len(urls) = Cardinality(OkCalls)

\* "http://" has been parsed: the remainder is empty
C6_Witness ==
    \E k \in 1..Len(calls) :
        /\ calls[k].input = Http \o Delim
        /\ EmptyHost(calls[k].result)

(***************************************************************************)
(* C7: the port of every Url returned is 80 and a ':' in the authority     *)
(* stays in the host; every connection attempt of Url::request goes to the *)
(* host field of its Url and to port 80.                                   *)
(***************************************************************************)
C7_FixedPort ==
    /\ \A k \in OkCalls :
          LET s == calls[k].input
              u == calls[k].result.url
          IN  /\ u.port = 80
              /\ StartsWith(s, Http \o Delim \o u.host)
    /\ \A n \in 1..Len(net) :
          /\ net[n].host = urls[conns[net[n].call].url].host
          /\ net[n].port = 80

\* "http://s:8" has been parsed and requested: the attempt goes to ("s:8", 80)
C7_Witness ==
    \E n \in 1..Len(net) :
        /\ net[n].host = <<"s", ":", "8">>
        /\ net[n].port = 80
        /\ urls[conns[net[n].call].url].host = <<"s", ":", "8">>

(***************************************************************************)
(* C8: each Url::request call makes exactly one connection attempt and     *)
(* never a second one, and a failure of the transport always ends the call *)
(* as Failed: no failure is swallowed.  A call is Connected only when its  *)
(* attempt connected.  The code does not behave so: see C8_Actual.         *)
(***************************************************************************)
AttemptsOf(k) == { n \in 1..Len(net) : net[n].call = k }

Failures(k) == { n \in AttemptsOf(k) : net[n].answer = "err" }

C8_SingleAttempt ==
    \A k \in 1..Len(conns) :
        /\ Cardinality(AttemptsOf(k)) <= 1
        /\ conns[k].state \in {"Attempting", "Connected", "Failed"}
        /\ Failures(k) # {} => conns[k].state = "Failed"
        /\ conns[k].state = "Connected" =>
              \E n \in AttemptsOf(k) : net[n].answer = "ok"

(***************************************************************************)
(* What the code does instead: the attempts of a call go to its addresses  *)
(* 1, 2, ... in order, all to the host and port of its Url, every attempt  *)
(* but the last has failed, and the call is Attempting, Connected or       *)
(* Failed as its last attempt is pending, has connected, or has failed at  *)
(* the last address.  A call without an attempt is still looking up the    *)
(* address, or has Failed because there is none.                           *)
(***************************************************************************)
C8_Actual ==
    \A k \in 1..Len(conns) :
        LET m == Cardinality(AttemptsOf(k)) IN
        /\ m <= MaxAddrs
        /\ { net[n].addr : n \in AttemptsOf(k) } = 1..m
        /\ \A n \in AttemptsOf(k) :
              /\ net[n].host = urls[conns[k].url].host
              /\ net[n].port = urls[conns[k].url].port
              /\ net[n].addr < m => net[n].answer = "err"
              /\ net[n].addr = m =>
                    /\ conns[k].state = "Attempting" <=> net[n].answer = "pending"
                    /\ conns[k].state = "Connected" <=> net[n].answer = "ok"
                    /\ conns[k].state = "Failed" <=> net[n].answer = "err"
        /\ m = 0 => \/ conns[k].state = "Attempting" /\ ~conns[k].resolved
                    \/ conns[k].state = "Failed" /\ conns[k].resolved

(***************************************************************************)
(* C10: every Url::new call has exactly one of the four outcomes, decided  *)
(* in this order: no "://" gives the missing-scheme-delimiter error; else  *)
(* a scheme other than "http" gives the unsupported-scheme error; else an  *)
(* empty host gives the empty-host error; else Ok.  Url::new returns Ok    *)
(* exactly for the inputs that begin with "http://" followed by a          *)
(* character other than '/'.                                               *)
(***************************************************************************)
Outcomes(r) ==
    (IF MissingSchemeDelimiter(r) THEN {"MissingSchemeDelimiter"} ELSE {})
        \cup (IF AnyUnsupportedScheme(r) THEN {"UnsupportedScheme"} ELSE {})
        \cup (IF EmptyHost(r) THEN {"EmptyHost"} ELSE {})
        \cup (IF Parsed(r) /\ r.url # NoUrl THEN {"Ok"} ELSE {})

Expected(s, r) ==
    IF ~HasDelim(s) THEN MissingSchemeDelimiter(r)
    ELSE \A i \in 1..Len(s) :
            FirstDelimAt(s, i) =>
                IF SubSeq(s, 1, i - 1) # Http
                THEN UnsupportedScheme(r, SubSeq(s, 1, i - 1))
                ELSE IF Len(s) = i + 2 \/ s[i + 3] = "/"
                     THEN EmptyHost(r)
                     ELSE Parsed(r)

C10_TotalCheckOrder ==
    \A k \in 1..Len(calls) :
        LET s == calls[k].input
            r == calls[k].result
        IN  /\ Cardinality(Outcomes(r)) = 1
            /\ Expected(s, r)
            /\ r.ok <=> (/\ StartsWith(s, Http \o Delim)
                         /\ Len(s) >= 8
                         /\ s[8] # "/")

\* "ftp:///s" has been parsed: bad scheme and empty host, reported as the scheme
C10_Witness ==
    \E k \in 1..Len(calls) :
        /\ calls[k].input = <<"f", "t", "p">> \o Delim \o <<"/", "s">>
        /\ UnsupportedScheme(calls[k].result, <<"f", "t", "p">>)
        /\ ~EmptyHost(calls[k].result)

=============================================================================
